---- MODULE Spec2Model ----
(***************************************************************************)
(* A model of token_service.py (src/main.py): TokenOptimizer, TokenEncoder, *)
(* TokenCounter, TokenTruncator and the TokenService that composes them.    *)
(*                                                                          *)
(* Text is a sequence of one-character strings; "<|endoftext|>" stands for  *)
(* the text of a special token, which tiktoken's encode() refuses with a    *)
(* ValueError.  A token sequence is a sequence of integers.  The logging    *)
(* calls change no state the program reads and are left out.                *)
(***************************************************************************)
EXTENDS Integers, Sequences, FiniteSets, TLC

VARIABLES svc, calls, unit

vars == <<svc, calls, unit>>

(***************************** bounds **************************************)
\* longest prompt / text handed to the service or to optimize_prompt
MaxPromptLen == 4
\* longest token sequence handed directly to TokenTruncator.truncate
MaxTokens == 3
\* token limits range over -MaxNegLimit .. MaxLimit, and the default
MaxLimit == 3
MaxNegLimit == 2

\* def __init__(self, model='gpt-3.5-turbo', token_limit=4096)
DefaultTokenLimit == 4096
DefaultModel == "gpt-3.5-turbo"

EOT == "<|endoftext|>"
Alphabet == {" ", "\n", "a", EOT}
\* the characters str.strip() removes (those of them in Alphabet)
Whitespace == {" ", "\n"}

TextsUpTo(n) == UNION {[1..k -> Alphabet] : k \in 0..n}
Prompts == TextsUpTo(MaxPromptLen)
\* the prompts of the concurrent callers: empty, whitespace-only, padded,
\* truncatable and unencodable ones
ConcPrompts == {<<>>, <<" ", "a", " ">>, <<"a", "\n", "a">>, <<"a", " ", "a">>, <<EOT>>}

TokenIds == {1, 2}
TokenSeqs == UNION {[1..k -> TokenIds] : k \in 0..MaxTokens}

Limits == ((0 - MaxNegLimit)..MaxLimit) \cup {DefaultTokenLimit}
Models == {DefaultModel, "gpt2", "no-such-model"}
Threads == {1, 2}

Min(a, b) == IF a <= b THEN a ELSE b
Max(a, b) == IF a >= b THEN a ELSE b
IsPrefix(p, s) == Len(p) <= Len(s) /\ p = SubSeq(s, 1, Len(p))

(************************* TokenOptimizer **********************************)
RECURSIVE lstrip(_)
lstrip(s) == IF s # <<>> /\ Head(s) \in Whitespace THEN lstrip(Tail(s)) ELSE s

RECURSIVE rstrip(_)
rstrip(s) ==
    IF s # <<>> /\ s[Len(s)] \in Whitespace
    THEN rstrip(SubSeq(s, 1, Len(s) - 1))
    ELSE s

\* str.strip()
strip(s) == rstrip(lstrip(s))

\* mutant of optimize_prompt: removes one whitespace character per side
optimize_prompt_strip_one(prompt) ==
    LET l == IF prompt # <<>> /\ Head(prompt) \in Whitespace THEN Tail(prompt) ELSE prompt
    IN  IF l # <<>> /\ l[Len(l)] \in Whitespace THEN SubSeq(l, 1, Len(l) - 1) ELSE l

\* mutant of optimize_prompt: strips nothing
optimize_prompt_raw(prompt) == prompt

optimize_prompt(prompt) == strip(prompt)

(************************** TokenEncoder ***********************************)
\* tiktoken's registry: the models it knows and the encodings it can build
MODEL_TO_ENCODING == (DefaultModel :> "cl100k_base") @@ ("gpt2" :> "gpt2")
ENCODING_NAMES == {"cl100k_base", "gpt2"}

\* tiktoken.encoding_for_model: KeyError for a model it does not know
encoding_for_model(model) ==
    IF model \in DOMAIN MODEL_TO_ENCODING
    THEN [raised |-> FALSE, encoding |-> MODEL_TO_ENCODING[model]]
    ELSE [raised |-> TRUE, encoding |-> "none"]

\* tiktoken.get_encoding: ValueError for an encoding name it does not know
get_encoding(name) ==
    IF name \in ENCODING_NAMES
    THEN [raised |-> FALSE, encoding |-> name]
    ELSE [raised |-> TRUE, encoding |-> "none"]

\* mutant of TokenEncoder_init: no try/except around the lookup
TokenEncoder_init_nofallback(model) == encoding_for_model(model)

\* TokenEncoder.__init__: try encoding_for_model, except get_encoding('cl100k_base')
TokenEncoder_init(model) ==
    LET r == encoding_for_model(model)
    IN  IF ~r.raised THEN r ELSE get_encoding("cl100k_base")

\* the vocabulary of an encoding: pieces of text and their token ids
Vocab(encoding) ==
    IF encoding = "cl100k_base"
    THEN (<<" ">> :> 220) @@ (<<"\n">> :> 198) @@ (<<"a">> :> 64)
         @@ (<<" ", "a">> :> 264) @@ (<<"a", "a">> :> 5418) @@ (<<" ", " ">> :> 256)
    ELSE (<<" ">> :> 220) @@ (<<"\n">> :> 198) @@ (<<"a">> :> 64)
         @@ (<<" ", "a">> :> 257) @@ (<<"a", "a">> :> 7252)

\* the longest piece of the vocabulary that text starts with
LongestPiece(encoding, text) ==
    LET ks == {k \in 1..Len(text) : SubSeq(text, 1, k) \in DOMAIN Vocab(encoding)}
    IN  CHOOSE k \in ks : \A j \in ks : j <= k

RECURSIVE tokenize(_, _)
tokenize(encoding, text) ==
    IF text = <<>> THEN <<>>
    ELSE LET k == LongestPiece(encoding, text)
         IN  <<Vocab(encoding)[SubSeq(text, 1, k)]>>
             \o tokenize(encoding, SubSeq(text, k + 1, Len(text)))

\* TokenEncoder.encode: self.encoding.encode(prompt); tiktoken raises
\* ValueError when the text holds the text of a special token
encode(encoding, prompt) ==
    IF \E i \in 1..Len(prompt) : prompt[i] = EOT
    THEN [raised |-> TRUE, tokens |-> <<>>]
    ELSE [raised |-> FALSE, tokens |-> tokenize(encoding, prompt)]

(************************** TokenCounter ***********************************)
get_token_count(tokens) == Len(tokens)

(************************* TokenTruncator **********************************)
\* Python's tokens[:n]
SliceTo(tokens, n) ==
    IF n >= 0
    THEN SubSeq(tokens, 1, Min(n, Len(tokens)))
    ELSE SubSeq(tokens, 1, Max(0, Len(tokens) + n))

\* mutant of truncate: keeps one token too many
truncate_off_by_one(token_limit, tokens) ==
    IF Len(tokens) > token_limit THEN SliceTo(tokens, token_limit + 1) ELSE tokens

\* mutant of truncate: a negative limit is taken for no limit
truncate_unlimited_below_zero(token_limit, tokens) ==
    IF token_limit < 0
    THEN tokens
    ELSE IF Len(tokens) > token_limit THEN SliceTo(tokens, token_limit) ELSE tokens

\* TokenTruncator.truncate, self.token_limit passed as token_limit
truncate(token_limit, tokens) ==
    IF Len(tokens) > token_limit THEN SliceTo(tokens, token_limit) ELSE tokens

(************************** TokenService ************************************)
NoService ==
    [constructed |-> FALSE, raised |-> FALSE, model |-> "none",
     encoding |-> "none", token_limit |-> 0]

\* TokenTruncator.__init__: self.token_limit = token_limit
TokenTruncator_init(token_limit) == token_limit

\* TokenService.__init__(model, token_limit): the object it leaves, or raised
TokenService_init(model, token_limit) ==
    LET e == TokenEncoder_init(model)
    IN  IF e.raised
        THEN [NoService EXCEPT !.raised = TRUE, !.model = model]
        ELSE [constructed |-> TRUE, raised |-> FALSE, model |-> model,
              encoding |-> e.encoding,
              token_limit |-> TokenTruncator_init(token_limit)]

\* the locals of one process_prompt call, and what each stage was handed
IdleCall ==
    [pc |-> "idle", prompt |-> <<>>, optimized_prompt |-> <<>>,
     encoded_tokens |-> <<>>, token_count_before |-> 0,
     truncated_tokens |-> <<>>, token_count_after |-> 0, result |-> <<>>,
     stages |-> <<>>, encode_in |-> <<>>, truncate_in |-> <<>>, count_in |-> <<>>]

NoUnit == [op |-> "none"]

Init == svc = NoService /\ calls = [t \in Threads |-> IdleCall] /\ unit = NoUnit

\* service = TokenService(model, token_limit)
Construct ==
    /\ ~svc.constructed /\ ~svc.raised
    /\ \E model \in Models, token_limit \in Limits :
          svc' = TokenService_init(model, token_limit)
    /\ UNCHANGED <<calls, unit>>

\* service.process_prompt(prompt) is entered
CallStep(t, prompts) ==
    /\ svc.constructed
    /\ calls[t].pc = "idle"
    /\ \E prompt \in prompts :
          calls' = [calls EXCEPT ![t] = [IdleCall EXCEPT !.pc = "optimize", !.prompt = prompt]]
    /\ UNCHANGED <<svc, unit>>

\* optimized_prompt = self.optimizer.optimize_prompt(prompt)
OptimizeStep(t) ==
    /\ calls[t].pc = "optimize"
    /\ LET c == calls[t]
       IN  calls' = [calls EXCEPT ![t] =
              [c EXCEPT !.pc = "encode",
                        !.optimized_prompt = optimize_prompt(c.prompt),
                        !.stages = Append(@, "optimize")]]
    /\ UNCHANGED <<svc, unit>>

\* mutant of EncodeStep: a failed encode is swallowed and the call goes on
EncodeStep_swallow(t) ==
    /\ calls[t].pc = "encode"
    /\ LET c == calls[t]
           r == encode(svc.encoding, c.optimized_prompt)
       IN  calls' = [calls EXCEPT ![t] =
              [c EXCEPT !.pc = "count_before", !.encoded_tokens = r.tokens,
                        !.encode_in = c.optimized_prompt,
                        !.stages = Append(@, "encode")]]
    /\ UNCHANGED <<svc, unit>>

\* encoded_tokens = self.encoder.encode(optimized_prompt); an exception of
\* encode leaves process_prompt, which has no handler
EncodeStep(t) ==
    /\ calls[t].pc = "encode"
    /\ LET c == calls[t]
           r == encode(svc.encoding, c.optimized_prompt)
       IN  calls' = [calls EXCEPT ![t] =
              IF r.raised
              THEN [c EXCEPT !.pc = "raised", !.encode_in = c.optimized_prompt,
                             !.stages = Append(@, "encode")]
              ELSE [c EXCEPT !.pc = "count_before", !.encoded_tokens = r.tokens,
                             !.encode_in = c.optimized_prompt,
                             !.stages = Append(@, "encode")]]
    /\ UNCHANGED <<svc, unit>>

\* token_count_before = self.counter.get_token_count(encoded_tokens)
CountBeforeStep(t) ==
    /\ calls[t].pc = "count_before"
    /\ LET c == calls[t]
       IN  calls' = [calls EXCEPT ![t] =
              [c EXCEPT !.pc = "truncate",
                        !.token_count_before = get_token_count(c.encoded_tokens),
                        !.count_in = Append(@, c.encoded_tokens),
                        !.stages = Append(@, "count")]]
    /\ UNCHANGED <<svc, unit>>

\* mutant of TruncateStep: the truncator lowers its own limit to what it kept
TruncateStep_shared(t) ==
    /\ calls[t].pc = "truncate"
    /\ LET c == calls[t]
           out == truncate(svc.token_limit, c.encoded_tokens)
       IN  /\ calls' = [calls EXCEPT ![t] =
                 [c EXCEPT !.pc = "count_after", !.truncated_tokens = out,
                           !.truncate_in = c.encoded_tokens,
                           !.stages = Append(@, "truncate")]]
           /\ svc' = [svc EXCEPT !.token_limit = Min(@, Len(out))]
    /\ UNCHANGED unit

\* truncated_tokens = self.truncator.truncate(encoded_tokens)
TruncateStep(t) ==
    /\ calls[t].pc = "truncate"
    /\ LET c == calls[t]
       IN  calls' = [calls EXCEPT ![t] =
              [c EXCEPT !.pc = "count_after",
                        !.truncated_tokens = truncate(svc.token_limit, c.encoded_tokens),
                        !.truncate_in = c.encoded_tokens,
                        !.stages = Append(@, "truncate")]]
    /\ UNCHANGED <<svc, unit>>

\* the dict process_prompt returns
ResultOf(c) ==
    [optimized_prompt |-> c.optimized_prompt, encoded_tokens |-> c.encoded_tokens,
     token_count_before |-> c.token_count_before,
     truncated_tokens |-> c.truncated_tokens,
     token_count_after |-> c.token_count_after]

\* mutant of CountAfterStep: the second count is taken of the untruncated tokens
CountAfterStep_untruncated(t) ==
    /\ calls[t].pc = "count_after"
    /\ LET c == calls[t]
           d == [c EXCEPT !.pc = "returned",
                          !.token_count_after = get_token_count(c.encoded_tokens),
                          !.count_in = Append(@, c.encoded_tokens),
                          !.stages = Append(@, "count")]
       IN  calls' = [calls EXCEPT ![t] = [d EXCEPT !.result = <<ResultOf(d)>>]]
    /\ UNCHANGED <<svc, unit>>

\* token_count_after = self.counter.get_token_count(truncated_tokens); return {...}
CountAfterStep(t) ==
    /\ calls[t].pc = "count_after"
    /\ LET c == calls[t]
           d == [c EXCEPT !.pc = "returned",
                          !.token_count_after = get_token_count(c.truncated_tokens),
                          !.count_in = Append(@, c.truncated_tokens),
                          !.stages = Append(@, "count")]
       IN  calls' = [calls EXCEPT ![t] = [d EXCEPT !.result = <<ResultOf(d)>>]]
    /\ UNCHANGED <<svc, unit>>

\* the caller is done with the result (or the exception) and may call again
FinishStep(t) ==
    /\ calls[t].pc \in {"returned", "raised"}
    /\ calls' = [calls EXCEPT ![t] = IdleCall]
    /\ UNCHANGED <<svc, unit>>

Pipeline(t) ==
    \/ OptimizeStep(t)
    \/ EncodeStep(t)
    \/ CountBeforeStep(t)
    \/ TruncateStep(t)
    \/ CountAfterStep(t)
    \/ FinishStep(t)

\* one caller, every prompt up to MaxPromptLen
Next == Construct \/ CallStep(1, Prompts) \/ Pipeline(1)

Spec == Init /\ [][Next]_vars

\* two callers of one shared service, interleaved stage by stage
NextConc == Construct \/ \E t \in Threads : CallStep(t, ConcPrompts) \/ Pipeline(t)

SpecConc == Init /\ [][NextConc]_vars

(********************* the pure functions on their own *********************)
\* optimize_prompt applied to a text, and again to its own result
InitOpt ==
    /\ svc = NoService /\ calls = [t \in Threads |-> IdleCall]
    /\ unit \in {[op |-> "optimize", text |-> x, once |-> <<>>, twice |-> <<>>, n |-> 0] :
                    x \in Prompts}

OptimizeOnce ==
    /\ unit.op = "optimize" /\ unit.n = 0
    /\ unit' = [unit EXCEPT !.once = optimize_prompt(unit.text), !.n = 1]
    /\ UNCHANGED <<svc, calls>>

OptimizeTwice ==
    /\ unit.op = "optimize" /\ unit.n = 1
    /\ unit' = [unit EXCEPT !.twice = optimize_prompt(unit.once), !.n = 2]
    /\ UNCHANGED <<svc, calls>>

NextOpt == OptimizeOnce \/ OptimizeTwice

SpecOpt == InitOpt /\ [][NextOpt]_vars

\* TokenTruncator(token_limit).truncate(tokens) for any token sequence
InitTrunc ==
    /\ svc = NoService /\ calls = [t \in Threads |-> IdleCall]
    /\ unit \in {[op |-> "truncate", token_limit |-> TokenTruncator_init(l),
                  tokens |-> s, out |-> <<>>, n |-> 0] :
                    l \in Limits, s \in TokenSeqs}

TruncateCall ==
    /\ unit.op = "truncate" /\ unit.n = 0
    /\ unit' = [unit EXCEPT !.out = truncate(unit.token_limit, unit.tokens), !.n = 1]
    /\ UNCHANGED <<svc, calls>>

NextTrunc == TruncateCall

SpecTrunc == InitTrunc /\ [][NextTrunc]_vars

\* process_prompt run alone on a freshly constructed TokenService(model, token_limit)
process_prompt(model, token_limit, prompt) ==
    LET self == TokenService_init(model, token_limit)
        optimized_prompt == optimize_prompt(prompt)
        e == encode(self.encoding, optimized_prompt)
        encoded_tokens == e.tokens
        token_count_before == get_token_count(encoded_tokens)
        truncated_tokens == truncate(self.token_limit, encoded_tokens)
        token_count_after == get_token_count(truncated_tokens)
    IN  IF e.raised
        THEN [raised |-> TRUE, result |-> <<>>]
        ELSE [raised |-> FALSE,
              result |-> <<[optimized_prompt |-> optimized_prompt,
                            encoded_tokens |-> encoded_tokens,
                            token_count_before |-> token_count_before,
                            truncated_tokens |-> truncated_tokens,
                            token_count_after |-> token_count_after]>>]

(******************************* claims ************************************)
AllWhitespace(text) == \A i \in 1..Len(text) : text[i] \in Whitespace
StageOrder == <<"optimize", "encode", "count", "truncate", "count">>

\* C1: the result of every process_prompt call of every service that can be
\* constructed has token_count_after = len(truncated_tokens) <=
\* min(token_count_before, token_limit), and truncated_tokens is a prefix of
\* encoded_tokens.
C1_ResultWithinLimit ==
    \A t \in Threads :
        calls[t].pc = "returned" =>
            LET r == calls[t].result[1]
            IN  /\ r.token_count_after = Len(r.truncated_tokens)
                /\ r.token_count_after <= Min(r.token_count_before, svc.token_limit)
                /\ IsPrefix(r.truncated_tokens, r.encoded_tokens)

\* C2: for every token sequence s and limit L >= 0, truncate returns a prefix of
\* s of length min(len(s), L): s itself when len(s) <= L, nothing when L = 0.
C2_TruncateExact ==
    (unit.op = "truncate" /\ unit.n = 1 /\ unit.token_limit >= 0) =>
        /\ Len(unit.out) = Min(Len(unit.tokens), unit.token_limit)
        /\ IsPrefix(unit.out, unit.tokens)
        /\ (Len(unit.tokens) <= unit.token_limit => unit.out = unit.tokens)
        /\ (unit.token_limit = 0 => unit.out = <<>>)

C2_Witness ==
    /\ unit.op = "truncate" /\ unit.n = 1
    /\ unit.token_limit > 0 /\ Len(unit.tokens) > unit.token_limit
    /\ Len(unit.out) = unit.token_limit

\* C3: no TokenService is ever constructed with a negative token limit, so no
\* process_prompt call is accepted by one.
C3_NegativeLimitRejected ==
    /\ svc.constructed => svc.token_limit >= 0
    /\ \A t \in Threads : calls[t].pc # "idle" => svc.token_limit >= 0

\* C4: constructing the service with a model tiktoken does not know never
\* raises, and leaves the encoder with the cl100k_base encoding.
C4_FallbackTotal ==
    ((svc.constructed \/ svc.raised) /\ svc.model \notin DOMAIN MODEL_TO_ENCODING) =>
        /\ ~svc.raised
        /\ svc.constructed
        /\ svc.encoding = "cl100k_base"

C4_Witness ==
    /\ svc.constructed /\ svc.model = "no-such-model"
    /\ calls[1].pc = "returned" /\ calls[1].result[1].token_count_before > 0

\* C5: when encode fails, process_prompt raises: it returns no result, encode
\* has run once and none of count, truncate, count has run.
C5_EncodeFailurePropagates ==
    \A t \in Threads :
        LET c == calls[t]
        IN  /\ (c.pc \notin {"idle", "optimize", "encode"}
                    /\ encode(svc.encoding, c.encode_in).raised) =>
                /\ c.pc = "raised"
                /\ c.result = <<>>
                /\ c.stages = <<"optimize", "encode">>
                /\ c.count_in = <<>> /\ c.truncate_in = <<>>
            /\ c.pc = "raised" => c.result = <<>>

C5_Witness ==
    /\ calls[1].pc = "raised"
    /\ \E i \in 1..Len(calls[1].prompt) : calls[1].prompt[i] = EOT

\* C6: a call runs optimize, encode, count, truncate, count in that order, once
\* each; encode is handed the optimized prompt, the first count and truncate the
\* encode output, the second count the truncate output.
C6_StagesInOrder ==
    \A t \in Threads :
        LET c == calls[t]
        IN  /\ IsPrefix(c.stages, StageOrder)
            /\ c.pc = "returned" =>
                /\ c.stages = StageOrder
                /\ c.encode_in = c.optimized_prompt
                /\ c.count_in = <<c.encoded_tokens, c.truncated_tokens>>
                /\ c.truncate_in = c.encoded_tokens
                /\ c.result[1].token_count_before = Len(c.encoded_tokens)
                /\ c.result[1].token_count_after = Len(c.truncated_tokens)
                /\ c.result[1].encoded_tokens = c.encoded_tokens
                /\ c.result[1].truncated_tokens = c.truncated_tokens
                /\ c.result[1].optimized_prompt = c.optimized_prompt

C6_Witness ==
    /\ calls[1].pc = "returned"
    /\ calls[1].prompt # calls[1].optimized_prompt
    /\ calls[1].encoded_tokens # calls[1].truncated_tokens
    /\ calls[1].truncated_tokens # <<>>

\* C7: no step of a call changes the service, and whatever the interleaving
\* with the other caller, a call ends as it would alone on a fresh service of
\* the same model and limit: with the same result, or raising.
C7_CallsIndependent ==
    [][/\ svc.constructed => svc' = svc
       /\ \A t \in Threads :
            LET alone == process_prompt(svc'.model, svc'.token_limit, calls'[t].prompt)
            IN  /\ calls'[t].pc = "returned" =>
                      ~alone.raised /\ calls'[t].result = alone.result
                /\ calls'[t].pc = "raised" => alone.raised]_vars

C7_Witness ==
    /\ calls[1].pc = "returned" /\ calls[2].pc = "returned"
    /\ calls[1].prompt # calls[2].prompt
    /\ calls[1].result[1].token_count_after < calls[1].result[1].token_count_before
    /\ calls[2].result[1].token_count_after < calls[2].result[1].token_count_before

\* C8: optimize_prompt applied to its own result changes nothing, and its
\* result is the text without its leading and trailing whitespace, for every
\* text, the empty and the whitespace-only ones included.
C8_OptimizeIdempotent ==
    /\ (unit.op = "optimize" /\ unit.n >= 1) =>
          \E i, j \in 0..Len(unit.text) :
              /\ i + j <= Len(unit.text)
              /\ unit.once = SubSeq(unit.text, i + 1, Len(unit.text) - j)
              /\ \A k \in 1..i : unit.text[k] \in Whitespace
              /\ \A k \in (Len(unit.text) - j + 1)..Len(unit.text) :
                    unit.text[k] \in Whitespace
              /\ unit.once # <<>> =>
                    /\ Head(unit.once) \notin Whitespace
                    /\ unit.once[Len(unit.once)] \notin Whitespace
    /\ (unit.op = "optimize" /\ unit.n = 2) => unit.twice = unit.once

C8_Witness ==
    /\ unit.op = "optimize" /\ unit.n = 2
    /\ Len(unit.text) >= 3
    /\ Head(unit.text) \in Whitespace /\ unit.text[Len(unit.text)] \in Whitespace
    /\ unit.once # <<>>

\* C9: a call with the empty prompt, or one of whitespace only, on a service
\* with a limit >= 0 does not raise and reports both token counts as 0.
C9_EmptyPrompt ==
    \A t \in Threads :
        LET c == calls[t]
        IN  (c.pc # "idle" /\ AllWhitespace(c.prompt) /\ svc.token_limit >= 0) =>
                /\ c.pc # "raised"
                /\ c.pc = "returned" =>
                      /\ c.result[1].token_count_before = 0
                      /\ c.result[1].token_count_after = 0

C9_Witness ==
    /\ calls[1].pc = "returned" /\ svc.token_limit >= 0
    /\ calls[1].prompt # <<>> /\ AllWhitespace(calls[1].prompt)

====
